---- MODULE Spec2Model ----
(***************************************************************************)
(* Model of the generational object pool of src/pool.rs (ObjectPool<T>,    *)
(* PoolEntry<T>, PoolKey).  The pool's four fields are the variables       *)
(* count, next, free and data; every method of the Pool trait is an        *)
(* operator over a pool record, translated from its body, and an action    *)
(* that applies it to the variables.  Indices are 0-based as in the source.*)
(* The remaining variables record what a caller observes: the result of the*)
(* last call and the history of the handles it was given.                  *)
(***************************************************************************)
EXTENDS Integers, Sequences, FiniteSets, TLC

\* ---- bounds of the model ----
\* Largest capacity passed to ObjectPool::new.
MaxCap == 2
\* Largest generation a slot reaches (usize in the source, 2^64 inserts away).
MaxGen == 3
\* Number of distinct element values (T in the source).
NumValues == 2

Values == 1..NumValues
\* Option::None of PoolEntry::data and of the Option results.
None == 0
\* Keys a caller can present: issued, stale, out of range or fabricated.
Keys == [index : 0..MaxCap, generation : 0..MaxGen]
\* Placeholder for calls that take or return no key.
NoKey == [index |-> 0 - 1, generation |-> 0 - 1]

\* Histories a caller may keep of its calls; one is kept per behaviour.
Watch == {"removed", "cleared", "stored", "freed", "counted"}

VARIABLES count, next, free, data, ret, watch, issued, latest, removed, cleared, stored, freed, run, tally

pool == <<count, next, free, data>>
hist == <<watch, issued, latest, removed, cleared, stored, freed, run, tally>>
vars == <<count, next, free, data, ret, watch, issued, latest, removed, cleared, stored, freed, run, tally>>

\* The pool as one value (the `self` of the methods).
Self == [count |-> count, next |-> next, free |-> free, data |-> data]

\* ---- PoolEntry<T> ----
PoolEntry_new == [generation |-> 0, data |-> None]

\* Faulty variant: stores the value but forgets to advance the generation.
PoolEntry_set_same_generation(e, value) == [generation |-> e.generation, data |-> value]

PoolEntry_set(e, value) == [generation |-> e.generation + 1, data |-> value]

PoolEntry_get(e) == e.data

PoolEntry_get_mut(e) == e.data

\* Faulty variant: resets the generation together with the data.
PoolEntry_clear_resetting(e) == [generation |-> 0, data |-> None]

PoolEntry_clear(e) == [e EXCEPT !.data = None]

PoolEntry_is_empty(e) == e.data = None

\* Faulty variant: returns the value but leaves it in the entry.
PoolEntry_take_copying(e) == [entry |-> e, value |-> e.data]

\* Faulty variant: advances the generation when the value is moved out.
PoolEntry_take_advancing(e) ==
    [entry |-> [generation |-> e.generation + 1, data |-> None], value |-> e.data]

PoolEntry_take(e) == [entry |-> [e EXCEPT !.data = None], value |-> e.data]

\* ---- ObjectPool<T> ----
new(cap) ==
    [count |-> 0, next |-> 0, free |-> << >>,
     data |-> [i \in 0..(cap - 1) |-> PoolEntry_new]]

\* data.capacity(): the vector is allocated with_capacity(capacity) and
\* resized to that length once, so its capacity is its length.
capacity(self) == Cardinality(DOMAIN self.data)

\* Faulty variant: takes the oldest element (a queue instead of a stack).
VecPop_front(s) == [value |-> s[1], rest |-> SubSeq(s, 2, Len(s))]

\* Vec::pop on a non-empty vector: the last element and the vector left.
VecPop(s) == [value |-> s[Len(s)], rest |-> SubSeq(s, 1, Len(s) - 1)]

\* Faulty variant: the high-water path forgets to advance next.
insert_without_advance(self, value) ==
    IF self.free # << >>
    THEN LET index == VecPop(self.free).value
             e == PoolEntry_set(self.data[index], value)
         IN  [panic |-> FALSE,
              pool |-> [self EXCEPT !.free = VecPop(self.free).rest,
                                    !.data[index] = e,
                                    !.count = self.count + 1],
              key |-> [index |-> index, generation |-> e.generation]]
    ELSE IF self.next < capacity(self)
    THEN LET index == self.next
             e == PoolEntry_set(self.data[index], value)
         IN  [panic |-> FALSE,
              pool |-> [self EXCEPT !.data[index] = e,
                                    !.count = self.count + 1],
              key |-> [index |-> index, generation |-> e.generation]]
    ELSE [panic |-> TRUE, pool |-> self, key |-> NoKey]

\* Faulty variant: advances next on the free-stack path as well.
insert_always_advancing(self, value) ==
    IF self.free # << >>
    THEN LET index == VecPop(self.free).value
             e == PoolEntry_set(self.data[index], value)
         IN  [panic |-> FALSE,
              pool |-> [self EXCEPT !.free = VecPop(self.free).rest,
                                    !.next = self.next + 1,
                                    !.data[index] = e,
                                    !.count = self.count + 1],
              key |-> [index |-> index, generation |-> e.generation]]
    ELSE IF self.next < capacity(self)
    THEN LET index == self.next
             e == PoolEntry_set(self.data[index], value)
         IN  [panic |-> FALSE,
              pool |-> [self EXCEPT !.next = self.next + 1,
                                    !.data[index] = e,
                                    !.count = self.count + 1],
              key |-> [index |-> index, generation |-> e.generation]]
    ELSE [panic |-> TRUE, pool |-> self, key |-> NoKey]

\* Faulty variant: returns the generation the slot had before set.
insert_returning_old_generation(self, value) ==
    IF self.free # << >>
    THEN LET index == VecPop(self.free).value
             e == PoolEntry_set(self.data[index], value)
         IN  [panic |-> FALSE,
              pool |-> [self EXCEPT !.free = VecPop(self.free).rest,
                                    !.data[index] = e,
                                    !.count = self.count + 1],
              key |-> [index |-> index, generation |-> self.data[index].generation]]
    ELSE IF self.next < capacity(self)
    THEN LET index == self.next
             e == PoolEntry_set(self.data[index], value)
         IN  [panic |-> FALSE,
              pool |-> [self EXCEPT !.next = self.next + 1,
                                    !.data[index] = e,
                                    !.count = self.count + 1],
              key |-> [index |-> index, generation |-> self.data[index].generation]]
    ELSE [panic |-> TRUE, pool |-> self, key |-> NoKey]

\* Faulty variant: counts the value before it looks for a slot.
insert_counting_first(self, value) ==
    IF self.free # << >>
    THEN LET index == VecPop(self.free).value
             e == PoolEntry_set(self.data[index], value)
         IN  [panic |-> FALSE,
              pool |-> [self EXCEPT !.free = VecPop(self.free).rest,
                                    !.data[index] = e,
                                    !.count = self.count + 1],
              key |-> [index |-> index, generation |-> e.generation]]
    ELSE IF self.next < capacity(self)
    THEN LET index == self.next
             e == PoolEntry_set(self.data[index], value)
         IN  [panic |-> FALSE,
              pool |-> [self EXCEPT !.next = self.next + 1,
                                    !.data[index] = e,
                                    !.count = self.count + 1],
              key |-> [index |-> index, generation |-> e.generation]]
    ELSE [panic |-> TRUE, pool |-> [self EXCEPT !.count = self.count + 1], key |-> NoKey]

\* insert: the index chosen, the pool after the call, the key returned.
\* panic |-> TRUE is the panic!() of the full pool; nothing was written.
insert(self, value) ==
    IF self.free # << >>
    THEN LET index == VecPop(self.free).value
             e == PoolEntry_set(self.data[index], value)
         IN  [panic |-> FALSE,
              pool |-> [self EXCEPT !.free = VecPop(self.free).rest,
                                    !.data[index] = e,
                                    !.count = self.count + 1],
              key |-> [index |-> index, generation |-> e.generation]]
    ELSE IF self.next < capacity(self)
    THEN LET index == self.next
             e == PoolEntry_set(self.data[index], value)
         IN  [panic |-> FALSE,
              pool |-> [self EXCEPT !.next = self.next + 1,
                                    !.data[index] = e,
                                    !.count = self.count + 1],
              key |-> [index |-> index, generation |-> e.generation]]
    ELSE [panic |-> TRUE, pool |-> self, key |-> NoKey]

\* Faulty variant: does not compare the generations.
get_any_generation(self, key) ==
    IF key.index >= capacity(self) THEN None
    ELSE PoolEntry_get(self.data[key.index])

get(self, key) ==
    IF key.index >= capacity(self) THEN None
    ELSE LET entry == self.data[key.index]
         IN  IF entry.generation # key.generation THEN None
             ELSE PoolEntry_get(entry)

get_mut(self, key) ==
    IF key.index >= capacity(self) THEN None
    ELSE LET entry == self.data[key.index]
         IN  IF entry.generation # key.generation THEN None
             ELSE PoolEntry_get_mut(entry)

\* Faulty variant: does not compare the generations.
take_any_generation(self, key) ==
    IF key.index >= capacity(self) THEN [pool |-> self, value |-> None]
    ELSE LET entry == self.data[key.index]
         IN  IF PoolEntry_is_empty(entry)
             THEN [pool |-> self, value |-> None]
             ELSE [pool |-> [self EXCEPT !.count = self.count - 1,
                                         !.free = Append(self.free, key.index),
                                         !.data[key.index] = PoolEntry_take(entry).entry],
                   value |-> PoolEntry_take(entry).value]

\* Faulty variant: does not test whether the slot is empty.
take_empty_slot(self, key) ==
    IF key.index >= capacity(self) THEN [pool |-> self, value |-> None]
    ELSE LET entry == self.data[key.index]
         IN  IF entry.generation # key.generation
             THEN [pool |-> self, value |-> None]
             ELSE [pool |-> [self EXCEPT !.count = self.count - 1,
                                         !.free = Append(self.free, key.index),
                                         !.data[key.index] = PoolEntry_take(entry).entry],
                   value |-> PoolEntry_take(entry).value]

\* Faulty variant: forgets to decrement count.
take_keeping_count(self, key) ==
    IF key.index >= capacity(self) THEN [pool |-> self, value |-> None]
    ELSE LET entry == self.data[key.index]
         IN  IF entry.generation # key.generation \/ PoolEntry_is_empty(entry)
             THEN [pool |-> self, value |-> None]
             ELSE [pool |-> [self EXCEPT !.free = Append(self.free, key.index),
                                         !.data[key.index] = PoolEntry_take(entry).entry],
                   value |-> PoolEntry_take(entry).value]

\* take: the pool after the call and the Option<T> returned.
take(self, key) ==
    IF key.index >= capacity(self) THEN [pool |-> self, value |-> None]
    ELSE LET entry == self.data[key.index]
         IN  IF entry.generation # key.generation \/ PoolEntry_is_empty(entry)
             THEN [pool |-> self, value |-> None]
             ELSE [pool |-> [self EXCEPT !.count = self.count - 1,
                                         !.free = Append(self.free, key.index),
                                         !.data[key.index] = PoolEntry_take(entry).entry],
                   value |-> PoolEntry_take(entry).value]

\* Faulty variant: does not compare the generations.
delete_any_generation(self, key) ==
    IF key.index >= capacity(self) THEN self
    ELSE LET entry == self.data[key.index]
         IN  IF PoolEntry_is_empty(entry)
             THEN self
             ELSE [self EXCEPT !.data[key.index] = PoolEntry_clear(entry),
                               !.count = self.count - 1,
                               !.free = Append(self.free, key.index)]

\* Faulty variant: does not push the freed index.
delete_without_push(self, key) ==
    IF key.index >= capacity(self) THEN self
    ELSE LET entry == self.data[key.index]
         IN  IF entry.generation # key.generation \/ PoolEntry_is_empty(entry)
             THEN self
             ELSE [self EXCEPT !.data[key.index] = PoolEntry_clear(entry),
                               !.count = self.count - 1]

\* Faulty variant: does not test whether the slot is empty.
delete_empty_slot(self, key) ==
    IF key.index >= capacity(self) THEN self
    ELSE LET entry == self.data[key.index]
         IN  IF entry.generation # key.generation
             THEN self
             ELSE [self EXCEPT !.data[key.index] = PoolEntry_clear(entry),
                               !.count = self.count - 1,
                               !.free = Append(self.free, key.index)]

\* Faulty variant: the bounds test is > instead of >=, so key.index =
\* capacity reads past the end of data; the entry read there is taken to
\* match the key and to be occupied, and the write goes outside data.
delete_off_by_one(self, key) ==
    IF key.index > capacity(self) THEN self
    ELSE LET inside == key.index < capacity(self)
             entry == IF inside THEN self.data[key.index]
                      ELSE [generation |-> key.generation, data |-> 1]
         IN  IF entry.generation # key.generation \/ PoolEntry_is_empty(entry)
             THEN self
             ELSE [self EXCEPT !.data = IF inside
                                        THEN [@ EXCEPT ![key.index] = PoolEntry_clear(entry)]
                                        ELSE @,
                               !.count = self.count - 1,
                               !.free = Append(self.free, key.index)]

delete(self, key) ==
    IF key.index >= capacity(self) THEN self
    ELSE LET entry == self.data[key.index]
         IN  IF entry.generation # key.generation \/ PoolEntry_is_empty(entry)
             THEN self
             ELSE [self EXCEPT !.data[key.index] = PoolEntry_clear(entry),
                               !.count = self.count - 1,
                               !.free = Append(self.free, key.index)]

\* Faulty variant: resets the slots to new entries, generation included.
clear_resetting_generations(self) ==
    [self EXCEPT !.data = [i \in DOMAIN self.data |-> PoolEntry_new],
                 !.free = << >>,
                 !.next = 0,
                 !.count = 0]

\* Faulty variant: leaves the free stack as it was.
clear_keeping_free(self) ==
    [self EXCEPT !.data = [i \in DOMAIN self.data |-> PoolEntry_clear(self.data[i])],
                 !.next = 0,
                 !.count = 0]

\* Faulty variant: leaves the high-water mark as it was.
clear_keeping_next(self) ==
    [self EXCEPT !.data = [i \in DOMAIN self.data |-> PoolEntry_clear(self.data[i])],
                 !.free = << >>,
                 !.count = 0]

\* Faulty variant: leaves count as it was.
clear_keeping_count(self) ==
    [self EXCEPT !.data = [i \in DOMAIN self.data |-> PoolEntry_clear(self.data[i])],
                 !.free = << >>,
                 !.next = 0]

\* Faulty variant: advances the generation of every slot it empties.
clear_advancing_generations(self) ==
    [self EXCEPT !.data = [i \in DOMAIN self.data |->
                              [generation |-> self.data[i].generation + 1, data |-> None]],
                 !.free = << >>,
                 !.next = 0,
                 !.count = 0]

clear(self) ==
    [self EXCEPT !.data = [i \in DOMAIN self.data |-> PoolEntry_clear(self.data[i])],
                 !.free = << >>,
                 !.next = 0,
                 !.count = 0]

\* Faulty variant: yields every slot from i on, empty ones included.
OccupiedFrom_unfiltered(self, i) == [n \in 1..(capacity(self) - i) |-> i + n - 1]

\* Indices of the occupied slots, ascending (data.iter().filter_map(get)).
RECURSIVE OccupiedFrom(_, _)
OccupiedFrom(self, i) ==
    IF i >= capacity(self) THEN << >>
    ELSE IF PoolEntry_get(self.data[i]) # None
         THEN << i >> \o OccupiedFrom(self, i + 1)
         ELSE OccupiedFrom(self, i + 1)

iter(self) ==
    LET occ == OccupiedFrom(self, 0)
    IN  [n \in 1..Len(occ) |-> PoolEntry_get(self.data[occ[n]])]

\* iter_mut yields the same slots; the caller may write through each item.
iter_mut(self) == OccupiedFrom(self, 0)

\* ---- what the caller remembers ----
\* Remove every occurrence of x from sequence s.
Without(s, x) == SelectSeq(s, LAMBDA y : y # x)

\* Function f without the argument k.
Forget(f, k) == [x \in DOMAIN f \ {k} |-> f[x]]

\* Result of the last call: the operation, the key it returned or resolved
\* (NoKey when it resolved none), the value passed or returned, and whether
\* it succeeded.
Ret(op, key, val, ok) == [op |-> op, key |-> key, val |-> val, ok |-> ok]

\* The key that resolves to slot i while the slot is occupied.
KeyOf(self, i) == [index |-> i, generation |-> self.data[i].generation]

\* Calls counted since construction: successful inserts, takes and deletes
\* that removed a value, clears that emptied at least one slot, and the
\* values those clears removed.
NoTally == [inserts |-> 0, removals |-> 0, clears |-> 0, dropped |-> 0]

\* No run of inserts after a clear is being recorded.
NoRun == [active |-> FALSE, gens |-> << >>, keys |-> << >>]

SetPool(p) ==
    /\ count' = p.count
    /\ next' = p.next
    /\ free' = p.free
    /\ data' = p.data

\* ---- actions ----
\* ObjectPool::new(cap): the state after construction.
Init ==
    /\ \E cap \in 0..MaxCap : /\ count = new(cap).count
                              /\ next = new(cap).next
                              /\ free = new(cap).free
                              /\ data = new(cap).data
    /\ ret = Ret("new", NoKey, None, TRUE)
    /\ watch \in Watch
    /\ issued = {}
    /\ latest = << >>
    /\ removed = {}
    /\ cleared = {}
    /\ stored = << >>
    /\ freed = << >>
    /\ run = NoRun
    /\ tally = NoTally

\* insert(value) on a pool with room.
Insert(value) ==
    LET r == insert(Self, value) IN
    /\ ~r.panic
    /\ r.key.generation <= MaxGen
    /\ SetPool(r.pool)
    /\ ret' = Ret("insert", r.key, value, TRUE)
    /\ issued' = issued \cup {r.key}
    /\ latest' = (r.key.index :> r.key) @@ latest
    /\ stored' = IF watch = "stored" THEN (r.key :> value) @@ stored ELSE stored
    /\ freed' = Without(freed, r.key.index)
    /\ run' = IF run.active THEN [run EXCEPT !.keys = Append(run.keys, r.key)] ELSE run
    /\ tally' = IF watch = "counted" THEN [tally EXCEPT !.inserts = @ + 1] ELSE tally
    /\ UNCHANGED <<watch, removed, cleared>>

\* insert(value) on a full pool: panic!().
InsertPanic(value) ==
    LET r == insert(Self, value) IN
    /\ r.panic
    /\ SetPool(r.pool)
    /\ ret' = Ret("insert", NoKey, value, FALSE)
    /\ UNCHANGED hist

Get(key) ==
    LET v == get(Self, key) IN
    /\ ret' = Ret("get", IF v # None THEN key ELSE NoKey, v, v # None)
    /\ UNCHANGED <<pool, hist>>

\* get_mut(key) without a write through the reference.
GetMut(key) ==
    LET v == get_mut(Self, key) IN
    /\ ret' = Ret("get_mut", IF v # None THEN key ELSE NoKey, v, v # None)
    /\ UNCHANGED <<pool, hist>>

\* *get_mut(key).unwrap() = value
GetMutWrite(key, value) ==
    /\ get_mut(Self, key) # None
    /\ data' = [data EXCEPT ![key.index].data = value]
    /\ ret' = Ret("get_mut_write", key, value, TRUE)
    /\ stored' = Forget(stored, key)
    /\ UNCHANGED <<count, next, free, watch, issued, latest, removed, cleared, freed, run, tally>>

\* *iter_mut().nth(n - 1).unwrap() = value
IterMutWrite(n, value) ==
    /\ n \in 1..Len(iter_mut(Self))
    /\ LET i == iter_mut(Self)[n] IN
        /\ data' = [data EXCEPT ![i].data = value]
        /\ ret' = Ret("iter_mut_write", KeyOf(Self, i), value, TRUE)
        /\ stored' = Forget(stored, KeyOf(Self, i))
    /\ UNCHANGED <<count, next, free, watch, issued, latest, removed, cleared, freed, run, tally>>

\* The histories after a take or delete of key that removed a value (hit).
Removal(key, hit) ==
    /\ removed' = IF hit /\ watch = "removed" THEN removed \cup {key} ELSE removed
    /\ stored' = IF hit THEN Forget(stored, key) ELSE stored
    /\ freed' = IF hit /\ watch = "freed"
                THEN Append(Without(freed, key.index), key.index) ELSE freed
    /\ run' = NoRun
    /\ tally' = IF hit /\ watch = "counted" THEN [tally EXCEPT !.removals = @ + 1] ELSE tally
    /\ UNCHANGED <<watch, issued, latest, cleared>>

Take(key) ==
    LET r == take(Self, key) IN
    /\ SetPool(r.pool)
    /\ ret' = Ret("take", IF r.value # None THEN key ELSE NoKey, r.value, r.value # None)
    /\ Removal(key, r.value # None)

Delete(key) ==
    LET hit == delete(Self, key) # Self IN
    /\ SetPool(delete(Self, key))
    /\ ret' = Ret("delete", IF hit THEN key ELSE NoKey, None, hit)
    /\ Removal(key, hit)

Clear ==
    /\ SetPool(clear(Self))
    /\ ret' = Ret("clear", NoKey, None, TRUE)
    /\ cleared' = IF watch = "cleared" THEN issued ELSE cleared
    /\ stored' = << >>
    /\ run' = IF watch = "cleared"
              THEN [active |-> TRUE,
                    gens |-> [i \in DOMAIN data |-> data[i].generation],
                    keys |-> << >>]
              ELSE run
    /\ tally' = IF watch = "counted" /\ \E i \in DOMAIN data : data[i].data # None
                THEN [tally EXCEPT !.clears = @ + 1,
                                   !.dropped = @ + Cardinality({i \in DOMAIN data : data[i].data # None})]
                ELSE tally
    /\ UNCHANGED <<watch, issued, latest, removed, freed>>

Next ==
    \/ \E value \in Values : Insert(value)
    \/ \E value \in Values : InsertPanic(value)
    \/ \E key \in Keys : Get(key)
    \/ \E key \in Keys : GetMut(key)
    \/ \E key \in Keys, value \in Values : GetMutWrite(key, value)
    \/ \E n \in 1..MaxCap, value \in Values : IterMutWrite(n, value)
    \/ \E key \in Keys : Take(key)
    \/ \E key \in Keys : Delete(key)
    \/ Clear

Spec == Init /\ [][Next]_vars

\* ---- properties ----
\* The slot key.index exists, carries key.generation and holds a value.
Resolves(key) ==
    /\ key.index < capacity(Self)
    /\ data[key.index].generation = key.generation
    /\ data[key.index].data # None

\* Every handle-addressed call with key finds nothing and changes nothing.
Absent(key) ==
    /\ get(Self, key) = None
    /\ get_mut(Self, key) = None
    /\ take(Self, key) = [pool |-> Self, value |-> None]
    /\ delete(Self, key) = Self

AllOccupied == \A i \in DOMAIN data : data[i].data # None

\* C1: a handle on which delete or take has succeeded stays absent for get,
\* get_mut and take, and a no-op for delete, in every later state, however
\* often its slot is reused.
InvalidationPermanent == \A h \in removed : Absent(h)

\* C1 witness: a removed handle whose slot has been reused twice and holds a
\* value again.
InvalidationWitness ==
    \E h \in removed : /\ data[h.index].generation >= h.generation + 2
                       /\ data[h.index].data # None

\* C2: a successful insert never returns a key that an earlier insert on
\* this pool returned.
HandleUniqueness ==
    [][(ret'.op = "insert" /\ ret'.ok) => ret'.key \notin issued]_vars

\* C2 witness: an insert has just returned a second key for a slot that
\* already had one.
UniquenessWitness ==
    /\ ret.op = "insert" /\ ret.ok
    /\ \E h \in issued : h.index = ret.key.index /\ h # ret.key

\* C3: get(h) returns the inserted value for every handle that has not been
\* deleted, taken, cleared or written through, whatever else was called.
ValidityAfterInsert == \A h \in DOMAIN stored : get(Self, h) = stored[h]

\* C3 witness: a handle of a reused slot still resolves to its value right
\* after a take with an unresolved key failed, another slot having been
\* reused as well.
ValidityWitness ==
    /\ ret.op = "take" /\ ~ret.ok
    /\ \E h \in DOMAIN stored : /\ h.generation >= 2
                                /\ \E k \in issued : k.index # h.index /\ k.generation >= 2

\* C4: the key an insert returns has a generation greater than that of every
\* key issued before for the same slot index.
GenerationsIncrease ==
    [][(ret'.op = "insert" /\ ret'.ok)
         => \A h \in issued : h.index = ret'.key.index
                                => ret'.key.generation > h.generation]_vars

\* C4 witness: an insert has returned the third key of a slot, after a clear.
GenerationsWitness ==
    /\ ret.op = "insert" /\ ret.ok /\ ret.key.generation >= 3
    /\ cleared # {}

\* C5: insert panics exactly when every slot is occupied, which is exactly
\* when count equals the capacity; a panicked insert found the pool full.
InsertFailsExactlyWhenFull ==
    /\ \A v \in Values : insert(Self, v).panic <=> AllOccupied
    /\ AllOccupied <=> count = capacity(Self)
    /\ (ret.op = "insert" /\ ~ret.ok) => count = capacity(Self)

\* C5 witness: an insert has panicked on a pool of capacity 2 that was full,
\* had a slot freed and was filled again.
InsertFailsWitness ==
    /\ ret.op = "insert" /\ ~ret.ok
    /\ capacity(Self) = 2
    /\ \E i \in DOMAIN data : data[i].generation >= 2

\* C6: when the free stack is not empty, insert returns the index freed most
\* recently by a take or delete and not reused since, and leaves next alone.
LifoReuse ==
    [][(watch = "freed" /\ free # << >> /\ ret'.op = "insert" /\ ret'.ok)
         => /\ freed # << >>
            /\ ret'.key.index = freed[Len(freed)]
            /\ next' = next]_vars

\* C6 witness: slot 0 then slot 1 were freed and the insert that followed has
\* returned slot 1, leaving slot 0 on the stack.
LifoWitness ==
    /\ watch = "freed" /\ ret.op = "insert" /\ ret.ok
    /\ freed = << 0 >> /\ free = << 0 >>
    /\ ret.key.index = 1 /\ ret.key.generation = 2

\* C7: take and delete with a key that does not resolve leave every field of
\* the pool as it was, and take returns None.
NoOpOnUnresolved ==
    \A key \in Keys : ~Resolves(key)
        => /\ take(Self, key) = [pool |-> Self, value |-> None]
           /\ delete(Self, key) = Self

\* C7 witness: a take has just failed on a pool holding a value and a freed
\* slot.
NoOpWitness ==
    /\ ret.op = "take" /\ ~ret.ok
    /\ count > 0 /\ free # << >>

\* C8: every handle issued before a clear is absent for get, get_mut and
\* take and a no-op for delete in every state after it.
ClearInvalidates == \A h \in cleared : Absent(h)

\* C8 witness: the slot of a handle issued before a clear holds a value
\* again, inserted through the reset high-water mark.
ClearInvalidatesWitness ==
    \E h \in cleared : /\ data[h.index].data # None
                       /\ free = << >>

\* C9: clear empties every slot and the free stack, sets next and count to
\* 0, and keeps every slot's generation.
ClearResets ==
    [][ret'.op = "clear"
         => /\ DOMAIN data' = DOMAIN data
            /\ \A i \in DOMAIN data : /\ data'[i].data = None
                                      /\ data'[i].generation = data[i].generation
            /\ free' = << >>
            /\ next' = 0
            /\ count' = 0]_vars

\* C9 witness: a clear has just run on a pool in which a slot had been
\* reused.
ClearResetsWitness ==
    /\ ret.op = "clear"
    /\ \E i \in DOMAIN data : data[i].generation >= 2

\* C10: the inserts that follow a clear with no take or delete in between
\* return the indices 0, 1, 2, ... and, for each, the generation the slot had
\* before the clear plus one.
AscendingAfterClear ==
    run.active => \A j \in 1..Len(run.keys) :
                      /\ run.keys[j].index = j - 1
                      /\ run.keys[j].generation = run.gens[j - 1] + 1

\* C10 witness: a fresh pool was filled once and cleared, and two inserts
\* have followed; the first returned generation 2.
AscendingWitness ==
    /\ run.active /\ Len(run.keys) = 2
    /\ \A i \in DOMAIN run.gens : run.gens[i] = 1
    /\ run.keys[1].generation = 2

\* The generation slot i had when clear was last called (0 if it never was):
\* the largest generation issued for it before that clear.
GenAtClear(i) ==
    LET gs == {h.generation : h \in {k \in cleared : k.index = i}}
    IN  IF gs = {} THEN 0 ELSE CHOOSE g \in gs : \A x \in gs : x <= g

\* C11 as claimed: every slot with index >= next is empty and has
\* generation 0.
FreshAboveNext ==
    \A i \in DOMAIN data : i >= next => data[i].data = None /\ data[i].generation = 0

\* C11 as amended: every slot with index >= next is empty and has the
\* generation it had when clear was last called, which is 0 if clear was
\* never called.
EmptyAboveNext ==
    watch = "cleared"
        => \A i \in DOMAIN data :
               i >= next => data[i].data = None /\ data[i].generation = GenAtClear(i)

\* C11 witness: after a clear and one insert, slot 1 is above next and keeps
\* the generation 1 it had before the clear.
EmptyAboveNextWitness ==
    /\ watch = "cleared" /\ cleared # {}
    /\ next = 1 /\ capacity(Self) = 2
    /\ data[0].data # None
    /\ data[1].generation = 1

\* C12: every index in the free stack is below next, refers to an empty
\* slot and occurs in the stack once.
FreeStackSound ==
    /\ \A n \in 1..Len(free) : /\ free[n] \in DOMAIN data
                               /\ free[n] < next
                               /\ data[free[n]].data = None
    /\ \A m, n \in 1..Len(free) : m # n => free[m] # free[n]

\* C12 witness: two slots are on the free stack and a take with a key that
\* no longer resolves has just returned None.
FreeStackWitness ==
    /\ Len(free) = 2
    /\ ret.op = "take" /\ ~ret.ok

\* C13: count is the number of slots that hold a value, hence between 0 and
\* the capacity.
CountIsOccupied ==
    /\ count = Cardinality({i \in DOMAIN data : data[i].data # None})
    /\ 0 <= count /\ count <= capacity(Self)

\* C13 witness: one of two used slots holds a value right after a delete
\* removed the other.
CountWitness ==
    /\ ret.op = "delete" /\ ret.ok
    /\ count = 1 /\ next = 2

\* C14: count + |free| = next, that is count + |free| + (capacity - next) =
\* capacity, and next lies between 0 and the capacity.
CountFreeNext ==
    /\ count + Len(free) + (capacity(Self) - next) = capacity(Self)
    /\ count + Len(free) = next
    /\ 0 <= next /\ next <= capacity(Self)

\* C14 witness: a pool of capacity 2 with one value, one freed slot and
\* next at the capacity, reached by an insert that reused a slot.
CountFreeNextWitness ==
    /\ ret.op = "insert" /\ ret.ok /\ ret.key.generation >= 2
    /\ count = 1 /\ Len(free) = 1 /\ next = 2

\* C15: the generation of every occupied slot is the generation of the key
\* insert returned last for that index, and exactly one issued key resolves
\* to the slot.
OccupiedMatchesLatest ==
    \A i \in DOMAIN data :
        data[i].data # None
            => /\ i \in DOMAIN latest
               /\ data[i].generation = latest[i].generation
               /\ Cardinality({h \in issued : h.index = i /\ Resolves(h)}) = 1

\* C15 witness: a slot for which three keys were issued holds a value, and
\* the last call was not the insert that stored it.
OccupiedMatchesWitness ==
    /\ ret.op # "insert"
    /\ \E i \in DOMAIN data : /\ data[i].data # None
                              /\ Cardinality({h \in issued : h.index = i}) = 3

\* The slots that hold a value, and the position of slot i among them.
Occupied == {i \in DOMAIN data : data[i].data # None}

Rank(i) == Cardinality({j \in Occupied : j < i}) + 1

\* C16: iter() and iter_mut() yield the values of exactly the occupied
\* slots, each once, in ascending slot-index order.
IterationCoverage ==
    /\ Len(iter(Self)) = Cardinality(Occupied)
    /\ Len(iter_mut(Self)) = Cardinality(Occupied)
    /\ \A i \in Occupied : /\ iter(Self)[Rank(i)] = data[i].data
                           /\ iter_mut(Self)[Rank(i)] = i

\* C16 witness: slot 0 was emptied by a delete and slot 1 still holds its
\* value, so the iteration starts at slot 1.
IterationWitness ==
    /\ ret.op = "delete" /\ ret.ok
    /\ capacity(Self) = 2
    /\ data[0].data = None /\ data[1].data # None

\* C17: for every key, delete leaves the pool in the state take leaves it
\* in.
DeleteIsTake == \A key \in Keys : delete(Self, key) = take(Self, key).pool

\* C17 witness: a delete has just removed a value from a pool that holds
\* another value and a slot with a stale generation.
DeleteIsTakeWitness ==
    /\ ret.op = "delete" /\ ret.ok
    /\ count > 0
    /\ \E i \in DOMAIN data : data[i].generation >= 2

\* C18: a second clear changes nothing: clear(clear(pool)) = clear(pool).
ClearIdempotent == clear(clear(Self)) = clear(Self)

\* C18 witness: a clear has just run on a pool whose slots were all used,
\* and the pool is the state a further clear returns.
ClearIdempotentWitness ==
    /\ ret.op = "clear"
    /\ capacity(Self) = 2
    /\ \A i \in DOMAIN data : data[i].generation >= 1
    /\ clear(Self) = Self

\* C19 as claimed: count is the number of insertions minus the number of
\* successful deletes, takes and clears.  (Only clears that removed a value
\* are counted; counting every clear fails already on a new pool.)
CountingByCalls ==
    watch = "counted" => count = tally.inserts - tally.removals - tally.clears

\* C19 as amended: count is the number of insertions minus the number of
\* successful deletes and takes minus the number of values removed by clears.
CountingByValues ==
    watch = "counted" => count = tally.inserts - tally.removals - tally.dropped

\* C19 witness: after a clear that removed two values and a take or delete
\* that removed one, the pool holds a value.
CountingWitness ==
    /\ watch = "counted"
    /\ tally.clears >= 1 /\ tally.dropped >= 2 /\ tally.removals >= 1
    /\ count >= 1

\* C20: insert never returns generation 0, and a key with generation 0 is
\* absent for get, get_mut and take and a no-op for delete, for every index.
GenerationZeroReserved ==
    /\ \A h \in issued : h.generation >= 1
    /\ \A key \in Keys : key.generation = 0 => Absent(key)

\* C20 witness: a get has just returned None on a pool with a value in
\* slot 0 and a slot that still has generation 0.
GenerationZeroWitness ==
    /\ ret.op = "get" /\ ~ret.ok
    /\ capacity(Self) = 2
    /\ data[0].data # None
    /\ data[1].generation = 0

\* Slot i is on the free stack.
InFree(i) == \E n \in 1..Len(free) : free[n] = i

\* The three slot states as claimed.
IsFresh(i) == data[i].generation = 0 /\ data[i].data = None /\ i >= next

IsEmpty(i) == data[i].generation >= 1 /\ data[i].data = None /\ InFree(i)

IsOccupied(i) == data[i].generation >= 1 /\ data[i].data # None

\* A slot at or above next: empty, not on the free stack, with generation 0
\* exactly when no key was ever issued for it.
IsUnallocated(i) ==
    /\ data[i].data = None /\ i >= next /\ ~InFree(i)
    /\ data[i].generation = 0 <=> ~\E h \in issued : h.index = i

\* C21 as claimed: every slot is Fresh, Empty or Occupied, and none is empty
\* with a generation >= 1 while absent from the free stack.
SlotStatesAsClaimed ==
    \A i \in DOMAIN data :
        /\ Cardinality({st \in {"fresh", "empty", "occupied"} :
               \/ st = "fresh" /\ IsFresh(i)
               \/ st = "empty" /\ IsEmpty(i)
               \/ st = "occupied" /\ IsOccupied(i)}) = 1
        /\ ~(data[i].data = None /\ data[i].generation >= 1 /\ ~InFree(i))

\* C21 as amended: every slot is in exactly one of three states: at or above
\* next, empty and off the free stack (its generation 0 only if it never held
\* a value); below next, empty, on the free stack, generation >= 1; below
\* next, holding a value, off the free stack, generation >= 1.  No slot below
\* next is empty while absent from the free stack.
SlotStates ==
    \A i \in DOMAIN data :
        /\ Cardinality({st \in {"unallocated", "empty", "occupied"} :
               \/ st = "unallocated" /\ IsUnallocated(i)
               \/ st = "empty" /\ IsEmpty(i) /\ i < next
               \/ st = "occupied" /\ IsOccupied(i) /\ i < next /\ ~InFree(i)}) = 1
        /\ ~(data[i].data = None /\ i < next /\ ~InFree(i))

\* C21 witness: after a clear, slot 0 was filled and freed again and slot 1
\* is above next with the generation it got before the clear.
SlotStatesWitness ==
    /\ capacity(Self) = 2
    /\ next = 1 /\ free = << 0 >>
    /\ data[1].generation >= 1

\* C22: the slot insert chooses is empty before the call, and no slot that
\* holds a value is changed by the call.
InsertNeverOverwrites ==
    [][(ret'.op = "insert" /\ ret'.ok)
         => /\ ret'.key.index \in DOMAIN data
            /\ data[ret'.key.index].data = None
            /\ \A i \in DOMAIN data : data[i].data # None => data'[i] = data[i]]_vars

\* C22 witness: an insert through the high-water mark has just filled slot 1
\* of a pool that was cleared before, slot 0 holding a value.
InsertNeverOverwritesWitness ==
    /\ ret.op = "insert" /\ ret.ok /\ ret.key.index = 1 /\ ret.key.generation = 2
    /\ free = << >> /\ next = 2
    /\ data[0].data # None

\* C23: a take that returns a value returns the one stored under the key,
\* empties that slot, keeps its generation, pushes its index on top of the
\* free stack, lowers count by 1 and changes neither next nor another slot.
TakeEffect ==
    [][(ret'.op = "take" /\ ret'.ok)
         => /\ Resolves(ret'.key)
            /\ ret'.val = data[ret'.key.index].data
            /\ ret'.key \in DOMAIN stored => ret'.val = stored[ret'.key]
            /\ data' = [data EXCEPT ![ret'.key.index].data = None]
            /\ free' = Append(free, ret'.key.index)
            /\ count' = count - 1
            /\ next' = next]_vars

\* C23 witness: a take has just returned the value of slot 0, whose
\* generation is 2, on top of a free stack that held slot 1.
TakeEffectWitness ==
    /\ ret.op = "take" /\ ret.ok /\ ret.val # None
    /\ ret.key = [index |-> 0, generation |-> 2]
    /\ free = << 1, 0 >>

\* C24: a successful insert stores the value in one slot and adds one to its
\* generation and to count; with a non-empty free stack it removes the top
\* of the stack and keeps next, otherwise it uses slot next, adds one to next
\* and keeps the stack; no other slot changes.
InsertEffect ==
    [][(ret'.op = "insert" /\ ret'.ok)
         => /\ ret'.key.index \in DOMAIN data
            /\ data' = [data EXCEPT ![ret'.key.index] =
                           [generation |-> data[ret'.key.index].generation + 1,
                            data |-> ret'.val]]
            /\ ret'.key.generation = data[ret'.key.index].generation + 1
            /\ count' = count + 1
            /\ IF free # << >>
               THEN /\ free' = SubSeq(free, 1, Len(free) - 1)
                    /\ next' = next
               ELSE /\ ret'.key.index = next
                    /\ next' = next + 1
                    /\ free' = free]_vars

\* C24 witness: an insert has just reused slot 0 from the free stack while
\* next was below the capacity.
InsertEffectWitness ==
    /\ ret.op = "insert" /\ ret.ok
    /\ ret.key = [index |-> 0, generation |-> 2]
    /\ next = 1 /\ capacity(Self) = 2

\* C25: for every key, get, get_mut, take and delete agree on whether the
\* key is valid, and it is valid exactly when its index is below the
\* capacity, the slot has its generation and the slot holds a value.
SamePredicate ==
    \A key \in Keys :
        /\ get(Self, key) # None <=> Resolves(key)
        /\ get_mut(Self, key) # None <=> Resolves(key)
        /\ take(Self, key).value # None <=> Resolves(key)
        /\ delete(Self, key) # Self <=> Resolves(key)

\* C25 witness: a get_mut has just found the value under a key of
\* generation 2 while another slot is empty with a generation above 0.
SamePredicateWitness ==
    /\ ret.op = "get_mut" /\ ret.ok /\ ret.key.generation = 2
    /\ free # << >>

\* C26: the index insert hands to get_unchecked_mut, popped from the free
\* stack or read from next, is an index of data.
InsertIndexInBounds ==
    /\ free # << >> => VecPop(free).value \in DOMAIN data
    /\ \A n \in 1..Len(free) : free[n] >= 0 /\ free[n] < capacity(Self)
    /\ (free = << >> /\ next < capacity(Self)) => next \in DOMAIN data
    /\ \A v \in Values : ~insert(Self, v).panic => insert(Self, v).key.index \in DOMAIN data

\* C26 witness: the free stack of a pool of capacity 2 holds both indices,
\* the last one on top, after a delete.
InsertIndexWitness ==
    /\ ret.op = "delete" /\ ret.ok
    /\ free = << 0, 1 >>

\* C27: an insert that panics has changed nothing in the pool and returns
\* no key.
FailedInsertUnchanged ==
    [][(ret'.op = "insert" /\ ~ret'.ok)
         => /\ UNCHANGED <<count, next, free, data>>
            /\ ret'.key = NoKey
            /\ ret'.key \notin issued']_vars

\* C27 witness: an insert has just panicked on a full pool of capacity 2
\* whose slots were each filled once.
FailedInsertWitness ==
    /\ ret.op = "insert" /\ ~ret.ok
    /\ count = 2
    /\ \A i \in DOMAIN data : data[i].generation = 1

====
